---------------------------- MODULE Spec2Model ----------------------------
(***************************************************************************)
(* Auto_aquaponic: the windowed sensor-cleaning pipeline of src/src.       *)
(*                                                                         *)
(* The module holds the program state once and several specifications     *)
(* over it:                                                                *)
(*   SpecWindow  SlidingWindow driven by arbitrary call sequences          *)
(*   SpecConst   is_const_err applied to arbitrary (window, last_changed),  *)
(*               with the alert sent on a fault                            *)
(*   Spec        main(): the bulk driver run_csv and the continuous        *)
(*               driver run_sensors, with the MQTT callback thread         *)
(*   SpecStages  range_check, med_filter and do_EMA called on windows      *)
(*   SpecCusum   CUSUM called step after step with a SlidingWindow         *)
(*   SpecConfig  the configuration lookups for every sensor type           *)
(*   SpecPredict is_dangerous_prediction on the forecasts of the model     *)
(*   SpecFrame   the stages and checks of a step called on one window     *)
(*                                                                         *)
(* Sensor values are modelled as exact rationals [k, n, d] (Python floats  *)
(* without rounding); None and NaN are separate tagged records.            *)
(* Timestamps are tagged records: a "YYYY-MM-DD HH:MM:SS" string is        *)
(* [k |-> "str", d, h, m] (day, hour, minute; seconds are 00).             *)
(***************************************************************************)
EXTENDS Integers, Sequences, FiniteSets, TLC

VARIABLES
    \* the window under study and the state threaded through the stages
    window,        \* SlidingWindow.window of the main window
    size,          \* SlidingWindow.size of the main window
    last_changed,  \* the list [value, time] written by is_const_err
    last_EMA,      \* the EMA carried from one do_EMA call to the next
    CT_plus_win,   \* the SlidingWindow of positive deviations CUSUM pushes to
    CT_min_win,    \* the SlidingWindow of negative deviations CUSUM pushes to
    \* the drivers of main.py
    mode,          \* sys.argv[1]: "csv" or "mqtt" ("none" in the component specs)
    pc,            \* the statement the driver is at
    error,         \* the exception that ended the driver, "none" while it runs
    batch,         \* run_csv: the list csv_to_datapoints returned
    data_points,   \* run_csv: the readings not yet popped
    cleaned_data,  \* run_csv: the list it returns
    target,        \* run_csv: the last_smoothed value handed to CUSUM
    first_window,  \* run_csv: the first_window flag ("unbound" before the fill loop)
    model,         \* the forecasting Model, "None" until constructed
    alerts,        \* the err_log calls made so far (bot.log messages)
    readings,      \* run_sensors: MQTTClient.readings, appended by on_message
    reading,       \* run_sensors: the DataPoint of this poll, or None
    num_reads,     \* run_sensors: the num_reads counter
    clean_vals,    \* run_sensors: the readings evicted so far
    sensor,        \* environment: the sensor behind the MQTT feed
    null_seen,     \* history: null readings taken from the input so far
    \* harness of the component specifications
    last_call,     \* the last component call, its pre-state and outcome
    n_calls        \* number of component calls made so far

devVars == <<CT_plus_win, CT_min_win>>
stageVars == <<window, size, devVars, last_changed, last_EMA>>
csvVars == <<batch, data_points, cleaned_data, target, first_window>>
mqttVars == <<readings, reading, num_reads, clean_vals, sensor>>
driverVars == <<mode, pc, error, model, alerts, null_seen, csvVars, mqttVars>>
harnessVars == <<last_call, n_calls>>

vars == <<stageVars, driverVars, harnessVars>>

---------------------------------------------------------------------------
(* Bounds of the model *)

\* number of SlidingWindow calls explored in SpecWindow
MaxOps == 42
\* number of remove_idx calls among them
MaxRemoves == 1
\* longest batch replayed by run_csv
MaxBatch == 12
\* number of MQTT messages delivered to on_message in one run
MaxMsgs == 11
\* number of messages that arrive while an earlier one is still queued or
\* the polling loop is between get_readings and clear_readings
MaxOverlap == 1
\* minutes between two consecutive readings of the sensor
StepMin == 31

---------------------------------------------------------------------------
(* data_point.py: DataPoint, and the values a field can hold *)

Num(i) == [k |-> "num", n |-> i, d |-> 1]
NoneVal == [k |-> "None"]
NaNVal == [k |-> "NaN"]

\* a "%Y-%m-%d %H:%M:%S" string on day dd at hh:mm:00
TimeStr(dd, hh, mm) == [k |-> "str", d |-> dd, h |-> hh, m |-> mm]
\* the literal string '0'
ZeroStr == [k |-> "zero_str"]
\* the integer 0 (not a string)
IntZero == [k |-> "int", n |-> 0]

\* the string for `t` minutes after 2024-01-01 00:00:00 (day 1)
TimeAt(t) == TimeStr(1 + (t \div 1440), (t % 1440) \div 60, t % 60)

DataPoint(v, t, s, u) ==
    [value |-> v, time_stamp |-> t, sensor_type |-> s, unit_of_measurement |-> u]

---------------------------------------------------------------------------
(* sliding_window.py: SlidingWindow *)

max_size == 40

\* mutant: a deque built without maxlen
deque_append_unbounded(w, r) == Append(w, r)

\* collections.deque(maxlen=max_size).append: a full deque drops its leftmost item
deque_append(w, r) ==
    IF Len(w) >= max_size THEN Append(Tail(w), r) ELSE Append(w, r)

add_reading(w, r) == deque_append(w, r)

\* append, then popleft: the new contents and the returned item
slide_next(w, r) ==
    LET a == deque_append(w, r)
    IN  [win |-> Tail(a), ret |-> Head(a)]

\* Python list index -> position 1..Len(w), 0 when out of range (IndexError)
PyIndex(w, idx) ==
    IF idx >= 0
    THEN IF idx < Len(w) THEN idx + 1 ELSE 0
    ELSE IF -idx <= Len(w) THEN Len(w) + idx + 1 ELSE 0

\* list(self.window).pop(idx), then a new deque(maxlen=max_size) of the rest
remove_idx(w, idx) ==
    LET p == PyIndex(w, idx)
    IN  IF p = 0
        THEN [win |-> w, ret |-> NoneVal, raised |-> "IndexError"]
        ELSE LET rest == [i \in 1..(Len(w) - 1) |-> IF i < p THEN w[i] ELSE w[i + 1]]
                 kept == IF Len(rest) > max_size
                         THEN SubSeq(rest, Len(rest) - max_size + 1, Len(rest))
                         ELSE rest
             IN  [win |-> kept, ret |-> w[p], raised |-> "none"]

\* mutant: a window counts as full only beyond its size
is_full_one_late(w, sz) == Len(w) > sz

\* len(self.window) >= self.size
is_full(w, sz) == Len(w) >= sz

get_win_vals(w) == [i \in 1..Len(w) |-> w[i].value]

get_win_times(w) == [i \in 1..Len(w) |-> w[i].time_stamp]

as_list(w) == w

\* mutant: the indexed entry is replaced by a new reading with the new value
change_val_restamps(w, index, new_val) ==
    LET p == PyIndex(w, index)
    IN  IF p = 0 THEN w
        ELSE [w EXCEPT ![p] = DataPoint(new_val, TimeAt(0), w[p].sensor_type,
                                        w[p].unit_of_measurement)]

\* readings[index].value = new_val: the entry at a Python index (negative
\* counts from the newest) gets a new value; IndexError leaves the window as is
change_val(w, index, new_val) ==
    LET p == PyIndex(w, index)
    IN  IF p = 0 THEN w ELSE [w EXCEPT ![p].value = new_val]

---------------------------------------------------------------------------
(* Arithmetic on sensor values: exact rationals n/d, d > 0, in lowest terms *)

RECURSIVE Gcd(_, _)
Gcd(a, b) == IF b = 0 THEN a ELSE Gcd(b, a % b)

Abs(a) == IF a < 0 THEN -a ELSE a

\* The one element of a singleton set: Only({e : x \in {v}}) is e with x bound
\* to the value of v, computed once however often e reads x
Only(S) == CHOOSE r \in S : TRUE

Rat(nn, dd) ==
    Only({LET sgn == IF p[2] < 0 THEN -1 ELSE 1
              g == Gcd(Abs(p[1]), Abs(p[2]))
          IN  [k |-> "num", n |-> (sgn * p[1]) \div g, d |-> (sgn * p[2]) \div g]
          : p \in {<<nn, dd>>}})

RAdd(a, b) ==
    Only({Rat(p[1].n * p[2].d + p[2].n * p[1].d, p[1].d * p[2].d)
          : p \in {<<a, b>>}})
RMul(a, b) ==
    Only({Rat(p[1].n * p[2].n, p[1].d * p[2].d) : p \in {<<a, b>>}})
RLt(a, b) == Only({p[1].n * p[2].d < p[2].n * p[1].d : p \in {<<a, b>>}})

RECURSIVE RSum(_)
RSum(vals) == IF Len(vals) = 0 THEN Num(0) ELSE RAdd(Head(vals), RSum(Tail(vals)))

\* statistics.mean of a non-empty list
mean(vals) == Only({RMul(RSum(v), Rat(1, Len(v))) : v \in {vals}})

\* statistics.median of three values: the middle one in sorted order
median3(a, b, c) ==
    IF (~RLt(b, a) /\ ~RLt(c, b)) \/ (~RLt(b, c) /\ ~RLt(a, b)) THEN b
    ELSE IF (~RLt(a, b) /\ ~RLt(c, a)) \/ (~RLt(a, c) /\ ~RLt(b, a)) THEN a
    ELSE c

\* the list without the item at position p (1-based)
Without(vals, p) ==
    [i \in 1..(Len(vals) - 1) |-> IF i < p THEN vals[i] ELSE vals[i + 1]]

---------------------------------------------------------------------------
(* preprocessor.py *)

\* mutant: the '0' timestamp sentinel is not recognised
is_null_without_zero_str(datapoint) ==
    \/ datapoint.value.k \in {"None", "NaN"}
    \/ datapoint.time_stamp.k \in {"None", "NaN"}

\* is_null(datapoint): value None or NaN, or timestamp None, '0' or NaN
is_null(datapoint) ==
    LET val == datapoint.value
        time == datapoint.time_stamp
    IN  IF val.k = "None" THEN TRUE
        ELSE IF val.k = "NaN" THEN TRUE
        ELSE IF time.k = "None" \/ time.k = "zero_str" THEN TRUE
        ELSE IF time.k = "NaN" THEN TRUE
        ELSE FALSE

\* mutant: the two weights are exchanged
do_EMA_weights_swapped(w, last_EMA_, alpha) ==
    LET window_vals == get_win_vals(w)
        latest_val == window_vals[Len(w)]
        new_EMA == RAdd(RMul(alpha, last_EMA_),
                        RMul(RAdd(Num(1), RMul(Num(-1), alpha)), latest_val))
    IN  [win |-> change_val(w, -1, new_EMA), ret |-> new_EMA]

\* do_EMA(window, last_EMA, alpha): the window after change_val(-1, new_EMA)
\* and the returned new_EMA
do_EMA(w, last_EMA_, alpha) ==
    LET window_vals == get_win_vals(w)
        latest_val == window_vals[Len(w)]
        new_EMA == RAdd(RMul(alpha, latest_val),
                        RMul(RAdd(Num(1), RMul(Num(-1), alpha)), last_EMA_))
    IN  [win |-> change_val(w, -1, new_EMA), ret |-> new_EMA]

\* mutant: the median is written one entry further on
med_filter_shifted(w, med_window) ==
    LET window_vals == get_win_vals(w)
        mid == med_window \div 2
        med == median3(window_vals[1], window_vals[2], window_vals[3])
    IN  IF window_vals[mid + 1] # med THEN change_val(w, mid + 1, med) ELSE w

\* med_filter(window, med_window) for med_window = 3
med_filter(w, med_window) ==
    LET window_vals == get_win_vals(w)
        mid == med_window \div 2
        med == median3(window_vals[1], window_vals[2], window_vals[3])
    IN  IF window_vals[mid + 1] # med THEN change_val(w, mid, med) ELSE w

OutOfRange(v, UL, LL) == RLt(UL, v) \/ RLt(v, LL)

\* mutant: each replacement is computed from the window as it is by then,
\* not from the values on entry
RECURSIVE range_check_all_current(_, _, _, _, _, _)
range_check_all_current(w, window_vals, UL, LL, i, sz) ==
    IF i >= sz THEN w
    ELSE range_check_all_current(
            IF OutOfRange(window_vals[i + 1], UL, LL)
            THEN change_val(w, i, mean(Without(get_win_vals(w), i + 1)))
            ELSE w,
            window_vals, UL, LL, i + 1, sz)

\* the all_vals branch: indices 0..size-1 in turn, each offending entry set to
\* the mean of the other entries of the snapshot taken on entry
RECURSIVE range_check_all(_, _, _, _, _, _)
range_check_all(w, window_vals, UL, LL, i, sz) ==
    IF i >= sz THEN w
    ELSE range_check_all(
            IF OutOfRange(window_vals[i + 1], UL, LL)
            THEN change_val(w, i, mean(Without(window_vals, i + 1)))
            ELSE w,
            window_vals, UL, LL, i + 1, sz)

\* mutant: the newest entry's own value is not taken out of the mean
range_check_newest_in_mean(w, sz, UL, LL, all_vals) ==
    LET window_vals == get_win_vals(w)
    IN  IF all_vals
        THEN range_check_all(w, window_vals, UL, LL, 0, sz)
        ELSE IF OutOfRange(window_vals[Len(w)], UL, LL)
             THEN change_val(w, -1, mean(window_vals))
             ELSE w

\* range_check(window, UL, LL, all_vals) on a window of window.size entries
range_check(w, sz, UL, LL, all_vals) ==
    LET window_vals == get_win_vals(w)
    IN  IF all_vals
        THEN range_check_all(w, window_vals, UL, LL, 0, sz)
        ELSE IF OutOfRange(window_vals[Len(w)], UL, LL)
             THEN change_val(w, -1, mean(Without(window_vals, Len(w))))
             ELSE w

---------------------------------------------------------------------------
(* SpecWindow: one SlidingWindow under arbitrary calls.  The n-th reading  *)
(* handed to the window is Probe(n), so every admitted reading is distinct *)
(* and carries its admission number in its value and timestamp.            *)

WinSizes == {2, 41}
\* indices handed to remove_idx: the oldest entry, and the second entry (an
\* IndexError on a window of fewer than two)
RemoveIdxs == {0, 1}

Probe(i) == DataPoint(Num(i), TimeAt(i), "TEMP_sensor", "C")

\* the harness record: the last call with its pre-state and outcome, and the
\* running totals (readings admitted, readings returned by slide_next,
\* remove_idx calls)
\* the drivers are not running
DriverIdle ==
    /\ mode = "none" /\ pc = "idle" /\ error = "none"
    /\ batch = <<>> /\ data_points = <<>> /\ cleaned_data = <<>>
    /\ target = Num(0) /\ first_window = "unbound"
    /\ model = "None" /\ alerts = <<>>
    /\ readings = <<>> /\ reading = NoneVal /\ num_reads = 1
    /\ clean_vals = <<>> /\ sensor = NoneVal /\ null_seen = 0
    /\ CT_plus_win = <<>> /\ CT_min_win = <<>>

NoCall ==
    [op |-> "none", pre |-> <<>>, arg |-> NoneVal, ret |-> NoneVal,
     raised |-> "none", admitted |-> 0, returned |-> {}, removes |-> 0]

WInit ==
    /\ window = <<>>
    /\ size \in WinSizes
    /\ last_changed = <<Num(0), IntZero>>
    /\ last_EMA = Num(0)
    /\ DriverIdle
    /\ last_call = NoCall
    /\ n_calls = 0

\* window.add_reading(Probe(n)): never raises (sliding_window.py:34)
WAdd ==
    /\ n_calls < MaxOps
    /\ LET r == Probe(last_call.admitted + 1)
       IN  /\ window' = add_reading(window, r)
           /\ last_call' = [last_call EXCEPT !.op = "add_reading", !.pre = window,
                               !.arg = r, !.ret = NoneVal, !.raised = "none",
                               !.admitted = @ + 1]
    /\ n_calls' = n_calls + 1
    /\ UNCHANGED <<size, devVars, last_changed, last_EMA, driverVars>>

\* window.slide_next(Probe(n))
WSlide ==
    /\ n_calls < MaxOps
    /\ LET r == Probe(last_call.admitted + 1)
           s == slide_next(window, r)
       IN  /\ window' = s.win
           /\ last_call' = [last_call EXCEPT !.op = "slide_next", !.pre = window,
                               !.arg = r, !.ret = s.ret, !.raised = "none",
                               !.admitted = @ + 1,
                               !.returned = @ \cup {s.ret}]
    /\ n_calls' = n_calls + 1
    /\ UNCHANGED <<size, devVars, last_changed, last_EMA, driverVars>>

\* window.remove_idx(idx)
WRemove ==
    /\ n_calls < MaxOps
    /\ last_call.removes < MaxRemoves
    /\ \E idx \in RemoveIdxs :
          LET s == remove_idx(window, idx)
          IN  /\ window' = s.win
              /\ last_call' = [last_call EXCEPT !.op = "remove_idx", !.pre = window,
                                  !.arg = Num(idx), !.ret = s.ret,
                                  !.raised = s.raised, !.removes = @ + 1]
    /\ n_calls' = n_calls + 1
    /\ UNCHANGED <<size, devVars, last_changed, last_EMA, driverVars>>

WNext == WAdd \/ WSlide \/ WRemove

SpecWindow == WInit /\ [][WNext]_vars

---------------------------------------------------------------------------
(* Claims about SlidingWindow, checked under SpecWindow *)

\* C3: for every SlidingWindow and every sequence of add_reading, slide_next
\* and remove_idx calls, the number of stored readings never exceeds the hard
\* cap of 40.
C3_LengthWithinHardCap == Len(window) <= max_size

\* C3 witness: add_reading was called on a window already holding max_size
\* readings, and the window still holds max_size.
C3_Witness ==
    /\ last_call.op = "add_reading"
    /\ Len(last_call.pre) = max_size
    /\ Len(window) = max_size

\* the readings admitted so far and still stored
Stored == {window[i] : i \in 1..Len(window)}

\* C4 (as claimed): whenever the window is full, slide_next(r) on e1..ek
\* returns e1 and leaves e2..ek,r; after any sequence of add_reading and
\* slide_next calls the contents are a contiguous run of the admitted readings
\* in admission order, no reading appears twice, and every admitted reading
\* that is no longer stored was returned by slide_next.
C4_SlideIsFifoAndNothingLost ==
    last_call.removes = 0 =>
        /\ (last_call.op = "slide_next" /\ is_full(last_call.pre, size)) =>
              /\ last_call.ret = Head(last_call.pre)
              /\ window = Append(Tail(last_call.pre), last_call.arg)
        /\ \E a \in 0..last_call.admitted :
              window = [i \in 1..Len(window) |-> Probe(a + i)]
        /\ \A i, j \in 1..Len(window) : window[i] = window[j] => i = j
        /\ \A i \in 1..last_call.admitted :
              Probe(i) \in Stored \/ Probe(i) \in last_call.returned

\* C5 (as claimed): add_reading on a window for which is_full() is already
\* true raises an error and leaves the contents unchanged.
C5_AddOnFullRaises ==
    (last_call.op = "add_reading" /\ is_full(last_call.pre, size)) =>
        /\ last_call.raised # "none"
        /\ window = last_call.pre

\* C6 (as claimed): add_reading on a window whose length has reached
\* hard_cap while logical_size (> 40) is not yet reached fails with a
\* capacity error and leaves the stored readings unchanged.
C6_AddAtHardCapRaises ==
    (/\ last_call.op = "add_reading"
     /\ Len(last_call.pre) >= max_size
     /\ ~is_full(last_call.pre, size)) =>
        /\ last_call.raised # "none"
        /\ window = last_call.pre

---------------------------------------------------------------------------
(* err_detections.py: the constant-value fault detector *)

\* Python ==  on two sensor values: NaN equals nothing, itself included
PyEq(a, b) == a.k # "NaN" /\ b.k # "NaN" /\ a = b

\* datetime.strptime(t, "%Y-%m-%d %H:%M:%S"): minutes since day 1 00:00 for
\* a well-formed string, TypeError for a non-string, ValueError for a string
\* of another shape
strptime(t) ==
    IF t.k = "str"
    THEN [raised |-> "none", minutes |-> ((t.d - 1) * 24 + t.h) * 60 + t.m]
    ELSE IF t.k = "zero_str"
         THEN [raised |-> "ValueError", minutes |-> 0]
         ELSE [raised |-> "TypeError", minutes |-> 0]

\* t2 - t1 as a timedelta, in minutes
time_difference(time1, time2) ==
    LET t1 == strptime(time1)
        t2 == strptime(time2)
    IN  IF t1.raised # "none"
        THEN [raised |-> t1.raised, minutes |-> 0]
        ELSE IF t2.raised # "none"
             THEN [raised |-> t2.raised, minutes |-> 0]
             ELSE [raised |-> "none", minutes |-> t2.minutes - t1.minutes]

\* mutant: the elapsed time compared with >= instead of >
is_const_err_geq(w, lc, max_time) ==
    IF PyEq(w[Len(w)].value, lc[1])
    THEN LET time_diff == time_difference(lc[2], w[Len(w)].time_stamp)
         IN  [ret |-> time_diff.raised = "none" /\ time_diff.minutes >= max_time,
              lc |-> lc, raised |-> time_diff.raised]
    ELSE [ret |-> FALSE, lc |-> <<w[Len(w)].value, w[Len(w)].time_stamp>>,
          raised |-> "none"]

\* mutant: last_changed is rewritten with the newest entry on every call
is_const_err_always_records(w, lc, max_time) ==
    LET window_times == get_win_times(w)
        window_vals == get_win_vals(w)
    IN  IF Len(w) = 0
        THEN [ret |-> FALSE, lc |-> lc, raised |-> "IndexError"]
        ELSE IF PyEq(window_vals[Len(w)], lc[1])
             THEN LET time_diff == time_difference(lc[2], window_times[Len(w)])
                  IN  IF time_diff.raised # "none"
                      THEN [ret |-> FALSE, lc |-> lc, raised |-> time_diff.raised]
                      ELSE [ret |-> time_diff.minutes > max_time,
                            lc |-> <<window_vals[Len(w)], window_times[Len(w)]>>,
                            raised |-> "none"]
             ELSE [ret |-> FALSE,
                   lc |-> <<window_vals[Len(w)], window_times[Len(w)]>>,
                   raised |-> "none"]

\* mutant: a reported fault restarts the clock at the newest entry
is_const_err_resets_on_fault(w, lc, max_time) ==
    LET window_times == get_win_times(w)
        window_vals == get_win_vals(w)
    IN  IF Len(w) = 0
        THEN [ret |-> FALSE, lc |-> lc, raised |-> "IndexError"]
        ELSE IF PyEq(window_vals[Len(w)], lc[1])
             THEN LET time_diff == time_difference(lc[2], window_times[Len(w)])
                  IN  IF time_diff.raised # "none"
                      THEN [ret |-> FALSE, lc |-> lc, raised |-> time_diff.raised]
                      ELSE [ret |-> time_diff.minutes > max_time,
                            lc |-> IF time_diff.minutes > max_time
                                   THEN <<window_vals[Len(w)], window_times[Len(w)]>>
                                   ELSE lc,
                            raised |-> "none"]
             ELSE [ret |-> FALSE,
                   lc |-> <<window_vals[Len(w)], window_times[Len(w)]>>,
                   raised |-> "none"]

\* is_const_err(window, last_changed, max_time): the returned flag, the
\* last_changed list after the call, and the exception raised if any
is_const_err(w, lc, max_time) ==
    LET window_times == get_win_times(w)
        window_vals == get_win_vals(w)
    IN  IF Len(w) = 0
        THEN [ret |-> FALSE, lc |-> lc, raised |-> "IndexError"]
        ELSE IF PyEq(window_vals[Len(w)], lc[1])
             THEN LET time_diff == time_difference(lc[2], window_times[Len(w)])
                  IN  IF time_diff.raised # "none"
                      THEN [ret |-> FALSE, lc |-> lc, raised |-> time_diff.raised]
                      ELSE [ret |-> time_diff.minutes > max_time, lc |-> lc,
                            raised |-> "none"]
             ELSE [ret |-> FALSE,
                   lc |-> <<window_vals[Len(w)], window_times[Len(w)]>>,
                   raised |-> "none"]

---------------------------------------------------------------------------
(* main.py: the sensor configuration *)

KnownSensorTypes ==
    {"Pvoltage_sensor", "Bvoltage_sensor", "SSTEMP_sensor", "TEMP_sensor",
     "illuminance_sensor", "SSHUM_sensor", "PH_sensor", "WINDDIR_sensor"}

\* readings[0].sensor_type; IndexError on an empty window
get_sensor_type(w) ==
    IF Len(w) = 0
    THEN [raised |-> "IndexError", val |-> "none"]
    ELSE [raised |-> "none", val |-> w[1].sensor_type]

\* timedelta(minutes=30), in minutes
ThirtyMinutes == 30

\* get_max_time(window): the default and every branch assign 30 minutes
get_max_time(w) ==
    LET sensor_type == get_sensor_type(w)
    IN  IF sensor_type.raised # "none"
        THEN [raised |-> sensor_type.raised, val |-> 0]
        ELSE IF sensor_type.val \in KnownSensorTypes
             THEN [raised |-> "none", val |-> ThirtyMinutes]
             ELSE [raised |-> "none", val |-> ThirtyMinutes]

---------------------------------------------------------------------------
(* main.py err_log and telebot.py Telebot.log: the alert of a fault *)

\* round(x, 2): the multiple of 1/100 nearest to x, a tie going to the one
\* with an even last digit; NaN stays NaN
Round2(v) ==
    IF v.k # "num" THEN v
    ELSE LET s == v.n * 100
             q == s \div v.d
             r == s - q * v.d
             up == (2 * r > v.d) \/ (2 * r = v.d /\ q % 2 = 1)
         IN  Rat(IF up THEN q + 1 ELSE q, 100)

\* err_log(bot, type, datapoint): the bot.log call it makes, with the value
\* rounded to two decimals (main.py:305)
err_log(type, datapoint) ==
    [type |-> type, value |-> Round2(datapoint.value),
     time |-> datapoint.time_stamp,
     sensor |-> datapoint.sensor_type, unit |-> datapoint.unit_of_measurement]

\* Telebot.log: the message sent for a bot.log call and the channel it goes to
Telebot_log(call) ==
    IF call.type = 1
    THEN IF PyEq(call.value, Num(0))
         THEN [text |-> "Stuck at Zero", channel |-> "tech",
               sensor |-> call.sensor, time |-> call.time]
         ELSE [text |-> "Constant Value Error", channel |-> "tech",
               sensor |-> call.sensor, value |-> call.value,
               unit |-> call.unit, time |-> call.time]
    ELSE IF call.type = 2
    THEN [text |-> "drifted past the control limit", channel |-> "tech",
          sensor |-> call.sensor, value |-> call.value,
          unit |-> call.unit, time |-> call.time]
    ELSE IF call.type = 3
    THEN [text |-> "predicted to be outside of the optimal range",
          channel |-> "ops", sensor |-> call.sensor, value |-> call.value,
          unit |-> call.unit]
    ELSE NoneVal

---------------------------------------------------------------------------
(* SpecConst: is_const_err on a window of two readings.  last_changed      *)
(* starts as main()'s placeholder [0, 0] or as any recorded (value, time); *)
(* readings keep arriving with gaps around max_stagnant_duration and the   *)
(* check runs on the window after any of them.                             *)

\* zero, a value that rounds to 0.00 (0.004), and an ordinary value
CValues == {Num(0), Rat(1, 250), Num(20)}
Gaps == {0, ThirtyMinutes, ThirtyMinutes + 1}
\* latest timestamp, in minutes, of a reading in SpecConst
MaxClock == 62
CTimes == {0, ThirtyMinutes, ThirtyMinutes + 1}

CReading(v, t) == DataPoint(v, TimeAt(t), "TEMP_sensor", "C")

\* minutes of the newest reading of the window (its readings are well-formed)
NewestMinutes == strptime(window[Len(window)].time_stamp).minutes

CInit ==
    /\ size = 2
    /\ \E v \in CValues : window = <<CReading(v, 0)>>
    /\ last_changed \in
          {<<Num(0), IntZero>>} \cup {<<v, TimeAt(t)>> : v \in CValues, t \in CTimes}
    /\ last_EMA = Num(0)
    /\ DriverIdle
    /\ last_call = NoCall
    /\ n_calls = 0

\* a new reading becomes the newest entry, as the drivers admit it; the
\* result of the check made on the previous window, if one was made, is kept
CArrive ==
    /\ \E v \in CValues, g \in Gaps :
          /\ NewestMinutes + g <= MaxClock
          /\ LET r == CReading(v, NewestMinutes + g)
             IN  window' = IF is_full(window, size)
                           THEN slide_next(window, r).win
                           ELSE add_reading(window, r)
    /\ last_call' =
          [op |-> "none", pre |-> <<>>, arg |-> NoneVal, ret |-> NoneVal,
           raised |-> "none", admitted |-> 0, returned |-> {}, removes |-> 0,
           reported |-> last_call.op = "is_const_err" /\ last_call.ret]
    /\ UNCHANGED <<size, devVars, last_changed, last_EMA, n_calls, driverVars>>

\* is_const_err(window, last_changed, get_max_time(window)), and
\* err_log(bot, 1, newest) when it returns True; `before` is the result of the
\* check on the previous window, `message` what the bot sends
CCheck ==
    /\ last_call.op = "none"
    /\ LET c == is_const_err(window, last_changed, get_max_time(window).val)
       IN  /\ last_changed' = c.lc
           /\ last_call' =
                 [op |-> "is_const_err", pre |-> window, arg |-> last_changed,
                  ret |-> c.ret, raised |-> c.raised, admitted |-> 0,
                  returned |-> {}, removes |-> 0,
                  before |-> "reported" \in DOMAIN last_call /\ last_call.reported,
                  message |-> IF c.ret
                              THEN Telebot_log(err_log(1, window[Len(window)]))
                              ELSE NoneVal]
    /\ UNCHANGED <<window, size, devVars, last_EMA, n_calls, driverVars>>

CNext == CArrive \/ CCheck

SpecConst == CInit /\ [][CNext]_vars

\* the elapsed minutes from a recorded last_changed to a reading's timestamp
\* (both well-formed strings), read off the fields of the two timestamps
ElapsedMinutes(from, to) ==
    (to.d - from.d) * 1440 + (to.h - from.h) * 60 + (to.m - from.m)

\* C9: is_const_err returns true exactly when the window's newest value
\* equals LastChanged.value and the time from LastChanged.timestamp to the
\* newest timestamp is strictly greater than max_stagnant_duration; it
\* returns false when the elapsed time equals max_stagnant_duration, and
\* false whenever the newest value differs from LastChanged.value.
C9_ConstErrIffEqualAndElapsedExceeds ==
    (last_call.op = "is_const_err" /\ last_call.raised = "none") =>
        LET newest == last_call.pre[Len(last_call.pre)]
            lc == last_call.arg
        IN  /\ last_call.ret =
                  (/\ newest.value = lc[1]
                   /\ ElapsedMinutes(lc[2], newest.time_stamp) > ThirtyMinutes)
            /\ (newest.value = lc[1]
                  /\ ElapsedMinutes(lc[2], newest.time_stamp) = ThirtyMinutes)
                  => last_call.ret = FALSE
            /\ newest.value # lc[1] => last_call.ret = FALSE

\* C9 witness: a check that returned true on an equal value held for 31
\* minutes, two arrivals after the start.
C9_Witness ==
    /\ last_call.op = "is_const_err"
    /\ last_call.raised = "none"
    /\ last_call.ret = TRUE
    /\ Len(window) = 2
    /\ ElapsedMinutes(last_call.arg[2], window[2].time_stamp) = ThirtyMinutes + 1

---------------------------------------------------------------------------
(* main.py: limits, the forecasting model, alerts *)

UnboundLocal == [raised |-> "UnboundLocalError", val |-> Num(0)]

\* get_UL(window): sequential ifs, no default (UL unbound for other types)
get_UL(w) ==
    LET sensor_type == get_sensor_type(w).val
    IN  IF sensor_type \in {"Pvoltage_sensor", "Bvoltage_sensor", "PH_sensor"}
        THEN [raised |-> "none", val |-> Num(50)]
        ELSE IF sensor_type \in {"SSTEMP_sensor", "TEMP_sensor"}
        THEN [raised |-> "none", val |-> Num(45)]
        ELSE IF sensor_type = "illuminance_sensor"
        THEN [raised |-> "none", val |-> Num(130000)]
        ELSE IF sensor_type = "SSHUM_sensor"
        THEN [raised |-> "none", val |-> Num(85)]
        ELSE IF sensor_type = "WINDDIR_sensor"
        THEN [raised |-> "none", val |-> Num(360)]
        ELSE UnboundLocal

\* get_LL(window): sequential ifs, no default
get_LL(w) ==
    LET sensor_type == get_sensor_type(w).val
    IN  IF sensor_type \in {"Pvoltage_sensor", "Bvoltage_sensor", "illuminance_sensor"}
        THEN [raised |-> "none", val |-> Rat(-1, 100000000)]
        ELSE IF sensor_type \in {"SSTEMP_sensor", "TEMP_sensor"}
        THEN [raised |-> "none", val |-> Num(-10)]
        ELSE IF sensor_type = "SSHUM_sensor"
        THEN [raised |-> "none", val |-> Num(10)]
        ELSE IF sensor_type = "PH_sensor"
        THEN [raised |-> "none", val |-> Num(-20)]
        ELSE IF sensor_type = "WINDDIR_sensor"
        THEN [raised |-> "none", val |-> Num(0)]
        ELSE UnboundLocal

\* get_model_type(sensor_type): falls off the end (None) for other types
get_model_type(sensor_type) ==
    IF sensor_type = "Pvoltage_sensor" THEN "pvolt"
    ELSE IF sensor_type = "Bvoltage_sensor" THEN "bvolt"
    ELSE IF sensor_type \in {"SSTEMP_sensor", "TEMP_sensor"} THEN "temp"
    ELSE IF sensor_type = "illuminance_sensor" THEN "illum"
    ELSE IF sensor_type = "SSHUM_sensor" THEN "hum"
    ELSE IF sensor_type = "PH_sensor" THEN "ph"
    ELSE "None"

\* prediction.py Model(sensor_type): only 'temp' has a model to load
Model(model_type) ==
    IF model_type = "temp"
    THEN [raised |-> "none", val |-> "temp"]
    ELSE [raised |-> "ValueError", val |-> "None"]

\* the EMA smoothing factor 0.4 passed by both drivers
EmaAlpha == Rat(2, 5)

\* what the drivers hand to CUSUM as `window`: window.get_win_vals(), a list
PyList(items) == [type |-> "list", items |-> items]

\* err_detections.py:73, the first statement of CUSUM: window.get_win_vals()
\* exists on a SlidingWindow only; on a list it is an AttributeError
CUSUM_get_win_vals(window_arg) ==
    IF window_arg.type = "SlidingWindow"
    THEN [raised |-> "none", val |-> window_arg.items]
    ELSE [raised |-> "AttributeError", val |-> <<>>]

---------------------------------------------------------------------------
(* The inputs of the drivers *)

logical_size == 10

SensorTypes == {"TEMP_sensor", "PH_sensor"}
UnitOf(st) == IF st = "TEMP_sensor" THEN "C" ELSE "pH"

\* sensor values: zero, a normal value, a value above every temperature limit
Values == {Num(0), Num(20), Num(100)}

\* the i-th reading of a sensor that shows v
Sample(i, v, st) == DataPoint(v, TimeAt(i * StepMin), st, UnitOf(st))

\* the null rows csv_to_datapoints can produce: float('nan') in the State
\* column, the string '0' in the Time column
CsvNullForms == {"nan_value", "zero_time"}

Spoil(r, form) ==
    IF form = "nan_value" THEN [r EXCEPT !.value = NaNVal]
    ELSE IF form = "zero_time" THEN [r EXCEPT !.time_stamp = ZeroStr]
    ELSE IF form = "none_time" THEN [r EXCEPT !.time_stamp = NoneVal]
    ELSE r

\* a batch of nn rows of one sensor: value v1 up to row kk, v2 after it, and
\* row np (if any) null in the given form
MkBatch(nn, kk, v1, v2, np, form, st) ==
    [i \in 1..nn |->
        LET r == Sample(i, IF i <= kk THEN v1 ELSE v2, st)
        IN  IF i = np THEN Spoil(r, form) ELSE r]

Batches ==
    {MkBatch(nn, kk, v1, v2, np, form, st) :
        nn \in 0..MaxBatch, kk \in 0..MaxBatch, v1 \in Values, v2 \in Values,
        np \in 0..MaxBatch, form \in CsvNullForms, st \in SensorTypes}

---------------------------------------------------------------------------
(* main(): the state both drivers start from *)

MainInit ==
    /\ window = <<>>                          \* SlidingWindow(10)
    /\ size = logical_size
    /\ last_changed = <<Num(0), IntZero>>     \* main.py:33
    /\ last_EMA = Num(0)                      \* main.py:34
    /\ CT_plus_win = <<>>                     \* SlidingWindow(10)
    /\ CT_min_win = <<>>                      \* SlidingWindow(10)
    /\ error = "none"
    /\ cleaned_data = <<>>
    /\ target = Num(0)
    /\ first_window = "unbound"
    /\ model = "None"
    /\ alerts = <<>>
    /\ readings = <<>>
    /\ reading = NoneVal
    /\ num_reads = 1
    /\ clean_vals = <<>>
    /\ null_seen = 0
    /\ last_call = NoCall
    /\ n_calls = 0

CsvInit ==
    /\ mode = "csv"
    /\ pc = "start"
    /\ batch \in Batches
    /\ data_points = batch                    \* main.py:214
    /\ sensor = NoneVal

MqttInit ==
    /\ mode = "mqtt"
    /\ pc = "poll"
    /\ batch = <<>>
    /\ data_points = <<>>
    /\ \E v \in Values, st \in SensorTypes :
          sensor = [sent |-> 0, v |-> v, switched |-> FALSE, stype |-> st,
                    overlaps |-> 0]

Init == MainInit /\ (CsvInit \/ MqttInit)

\* the driver stops with an exception
Raise(e) == pc' = "raised" /\ error' = e

Newest(w) == w[Len(w)]

---------------------------------------------------------------------------
(* run_csv (main.py:204-276) *)

\* 215-220: target = data_points[0].value
CsvStart ==
    /\ mode = "csv" /\ pc = "start"
    /\ IF data_points = <<>>
       THEN Raise("IndexError") /\ UNCHANGED target
       ELSE pc' = "fill" /\ target' = data_points[1].value /\ UNCHANGED error
    /\ UNCHANGED <<stageVars, mode, model, alerts, null_seen, batch, data_points,
                   cleaned_data, first_window, mqttVars, harnessVars>>

\* 222-227: one iteration of the fill loop
CsvFill ==
    /\ mode = "csv" /\ pc = "fill"
    /\ ~is_full(window, size) /\ data_points # <<>>
    /\ IF ~is_null(data_points[1])
       THEN window' = add_reading(window, data_points[1]) /\ UNCHANGED null_seen
       ELSE null_seen' = null_seen + 1 /\ UNCHANGED window
    /\ data_points' = Tail(data_points)
    /\ first_window' = "True"
    /\ UNCHANGED <<size, devVars, last_changed, last_EMA, mode, pc, error, model, alerts,
                   batch, cleaned_data, target, mqttVars, harnessVars>>

\* 229: model = Model(get_model_type(window.get_sensor_type()))
CsvModel ==
    /\ mode = "csv" /\ pc = "fill"
    /\ is_full(window, size) \/ data_points = <<>>
    /\ LET st == get_sensor_type(window)
           m == Model(get_model_type(st.val))
       IN  IF st.raised # "none"
           THEN Raise(st.raised) /\ UNCHANGED model
           ELSE IF m.raised # "none"
                THEN Raise(m.raised) /\ UNCHANGED model
                ELSE pc' = "loop" /\ model' = m.val /\ UNCHANGED error
    /\ UNCHANGED <<stageVars, mode, alerts, null_seen, csvVars, mqttVars, harnessVars>>

\* 231-235: the steady loop is entered; on the first pass last_changed and
\* last_EMA are taken from the newest entry
CsvSeed ==
    /\ mode = "csv" /\ pc = "loop"
    /\ data_points # <<>>
    /\ IF first_window = "True"
       THEN /\ last_changed' = <<Newest(get_win_vals(window)), Newest(get_win_times(window))>>
            /\ last_EMA' = Newest(get_win_vals(window))
       ELSE UNCHANGED <<last_changed, last_EMA>>
    /\ pc' = "const"
    /\ UNCHANGED <<window, size, devVars, mode, error, model, alerts, null_seen, csvVars,
                   mqttVars, harnessVars>>

\* 275-276: the steady loop is over; the window is drained into the result
CsvReturn ==
    /\ mode = "csv" /\ pc = "loop"
    /\ data_points = <<>>
    /\ cleaned_data' = cleaned_data \o as_list(window)
    /\ pc' = "returned"
    /\ UNCHANGED <<stageVars, mode, error, model, alerts, null_seen, batch,
                   data_points, target, first_window, mqttVars, harnessVars>>

\* 238-240: is_const_err, and err_log(bot, 1, newest) when it returns True
CsvConst ==
    /\ mode = "csv" /\ pc = "const"
    /\ LET c == is_const_err(window, last_changed, get_max_time(window).val)
       IN  IF c.raised # "none"
           THEN Raise(c.raised) /\ UNCHANGED <<last_changed, alerts>>
           ELSE /\ last_changed' = c.lc
                /\ alerts' = IF c.ret THEN Append(alerts, err_log(1, Newest(window)))
                             ELSE alerts
                /\ pc' = "range" /\ UNCHANGED error
    /\ UNCHANGED <<window, size, devVars, last_EMA, mode, model, null_seen, csvVars,
                   mqttVars, harnessVars>>

\* 243-247: range_check, over the whole window on the first pass; last_call
\* keeps the all_vals argument of the call
CsvRange ==
    /\ mode = "csv" /\ pc = "range"
    /\ LET ul == get_UL(window)
           ll == get_LL(window)
       IN  IF ul.raised # "none"
           THEN Raise(ul.raised) /\ UNCHANGED <<window, first_window, last_call>>
           ELSE /\ window' = range_check(window, size, ul.val, ll.val,
                                         first_window = "True")
                /\ last_call' = [NoCall EXCEPT !.op = "range_check",
                                               !.arg = (first_window = "True")]
                /\ first_window' = "False"
                /\ pc' = "med" /\ UNCHANGED error
    /\ UNCHANGED <<size, devVars, last_changed, last_EMA, mode, model, alerts, null_seen,
                   batch, data_points, cleaned_data, target, mqttVars, n_calls>>

\* 250: med_filter(window, 3)
CsvMed ==
    /\ mode = "csv" /\ pc = "med"
    /\ window' = med_filter(window, 3)
    /\ pc' = "ema"
    /\ UNCHANGED <<size, devVars, last_changed, last_EMA, mode, error, model, alerts,
                   null_seen, csvVars, mqttVars, harnessVars>>

\* 253: last_EMA = do_EMA(window, last_EMA, 0.4)
CsvEMA ==
    /\ mode = "csv" /\ pc = "ema"
    /\ LET e == do_EMA(window, last_EMA, EmaAlpha)
       IN  window' = e.win /\ last_EMA' = e.ret
    /\ pc' = "cusum"
    /\ UNCHANGED <<size, devVars, last_changed, mode, error, model, alerts, null_seen,
                   csvVars, mqttVars, harnessVars>>

\* 256: CUSUM(CT_plus_win, CT_min_win, window.get_win_vals(), target).  The
\* third argument is a list, and CUSUM's first statement calls get_win_vals()
\* on it: the call raises AttributeError, which run_csv does not catch.  The
\* statements after it (258-273: the drift alert, is_dangerous_prediction,
\* the null skip and slide_next) are never reached.
CsvCUSUM ==
    /\ mode = "csv" /\ pc = "cusum"
    /\ LET c == CUSUM_get_win_vals(PyList(get_win_vals(window)))
       IN  c.raised # "none" /\ Raise(c.raised)
    /\ UNCHANGED <<stageVars, mode, model, alerts, null_seen, csvVars, mqttVars,
                   harnessVars>>

CsvNext ==
    \/ CsvStart \/ CsvFill \/ CsvModel \/ CsvSeed \/ CsvReturn
    \/ CsvConst \/ CsvRange \/ CsvMed \/ CsvEMA \/ CsvCUSUM

---------------------------------------------------------------------------
(* mqtt_client.py: the callback thread *)

\* the payloads that make a null reading: a NaN state, no last_changed field
MqttNullForms == {"nan_value", "none_time"}

\* on_message appends the tuple (value, human_time, device_class, unit)
RawTuple(r) == <<r.value, r.time_stamp, r.sensor_type, r.unit_of_measurement>>

\* a message that arrives now meets a queued reading or a poll in progress
Overlapping == readings # <<>> \/ pc # "poll"

\* on_message (mqtt_client.py:51-78) for the sensor's next reading, which
\* shows the sensor's value, a value it changes to (once), or is null
OnMessage ==
    /\ mode = "mqtt" /\ pc # "raised"
    /\ sensor.sent < MaxMsgs
    /\ Overlapping => sensor.overlaps < MaxOverlap
    /\ \E v \in Values, form \in MqttNullForms \cup {"valid"} :
          /\ v = sensor.v \/ (~sensor.switched /\ form = "valid")
          /\ readings' = Append(readings,
                RawTuple(Spoil(Sample(sensor.sent + 1, v, sensor.stype), form)))
          /\ sensor' = [sensor EXCEPT !.sent = @ + 1, !.v = v,
                                      !.switched = @ \/ v # sensor.v,
                                      !.overlaps = IF Overlapping THEN @ + 1 ELSE @]
    /\ UNCHANGED <<stageVars, mode, pc, error, model, alerts, null_seen, csvVars,
                   reading, num_reads, clean_vals, harnessVars>>

---------------------------------------------------------------------------
(* run_sensors (main.py:90-199) *)

\* 131-149: take readings_list[0] if there is one, drop it if null, write it
\* to the raw csv, and on the first reading seed last_EMA and load the model.
\* datapoints_to_csv([reading], ...) reads data_points[0].sensor_type, an
\* AttributeError when the reading was null (reading = None).
MqPoll ==
    /\ mode = "mqtt" /\ pc = "poll"
    /\ IF readings = <<>>
       THEN /\ reading' = NoneVal /\ pc' = "admit"
            /\ UNCHANGED <<num_reads, last_EMA, model, error, null_seen>>
       ELSE LET raw_reading == readings[1]
                dp == DataPoint(raw_reading[1], raw_reading[2], raw_reading[3],
                                raw_reading[4])
                m == Model(get_model_type(dp.sensor_type))
            IN  IF is_null(dp)
                THEN /\ reading' = NoneVal
                     /\ num_reads' = num_reads - 1
                     /\ null_seen' = null_seen + 1
                     /\ Raise("AttributeError")
                     /\ UNCHANGED <<last_EMA, model>>
                ELSE /\ reading' = dp
                     /\ UNCHANGED null_seen
                     /\ IF num_reads = 1
                        THEN /\ last_EMA' = dp.value
                             /\ IF m.raised # "none"
                                THEN Raise(m.raised) /\ UNCHANGED <<model, num_reads>>
                                ELSE /\ model' = m.val /\ num_reads' = num_reads + 1
                                     /\ pc' = "admit" /\ UNCHANGED error
                        ELSE /\ num_reads' = num_reads + 1
                             /\ pc' = "admit"
                             /\ UNCHANGED <<last_EMA, model, error>>
    /\ UNCHANGED <<window, size, devVars, last_changed, mode, alerts, csvVars, readings,
                   clean_vals, sensor, harnessVars>>

\* 151-155: slide the reading in if the window is full, else append it; then
\* 159: the stages run if the window is full and there is a reading
MqAdmit ==
    /\ mode = "mqtt" /\ pc = "admit"
    /\ IF reading # NoneVal /\ is_full(window, size)
       THEN LET s == slide_next(window, reading)
            IN  window' = s.win /\ clean_vals' = Append(clean_vals, s.ret)
       ELSE IF reading # NoneVal
            THEN window' = add_reading(window, reading) /\ UNCHANGED clean_vals
            ELSE UNCHANGED <<window, clean_vals>>
    /\ pc' = IF is_full(window', size) /\ reading # NoneVal THEN "seed" ELSE "clear"
    /\ UNCHANGED <<size, devVars, last_changed, last_EMA, mode, error, model, alerts,
                   null_seen, csvVars, readings, reading, num_reads, sensor,
                   harnessVars>>

\* 161-163: last_changed is taken from the newest entry when num_reads == 10
MqSeed ==
    /\ mode = "mqtt" /\ pc = "seed"
    /\ IF num_reads = 10
       THEN last_changed' = <<Newest(get_win_vals(window)), Newest(get_win_times(window))>>
       ELSE UNCHANGED last_changed
    /\ pc' = "const"
    /\ UNCHANGED <<window, size, devVars, last_EMA, mode, error, model, alerts, null_seen,
                   csvVars, mqttVars, harnessVars>>

\* 166-168: is_const_err, and err_log(bot, 1, newest) when it returns True
MqConst ==
    /\ mode = "mqtt" /\ pc = "const"
    /\ LET c == is_const_err(window, last_changed, get_max_time(window).val)
       IN  IF c.raised # "none"
           THEN Raise(c.raised) /\ UNCHANGED <<last_changed, alerts>>
           ELSE /\ last_changed' = c.lc
                /\ alerts' = IF c.ret THEN Append(alerts, err_log(1, Newest(window)))
                             ELSE alerts
                /\ pc' = "range" /\ UNCHANGED error
    /\ UNCHANGED <<window, size, devVars, last_EMA, mode, model, null_seen, csvVars,
                   mqttVars, harnessVars>>

\* 171-174: range_check, over the whole window when num_reads == 10
MqRange ==
    /\ mode = "mqtt" /\ pc = "range"
    /\ LET ul == get_UL(window)
           ll == get_LL(window)
       IN  IF ul.raised # "none"
           THEN Raise(ul.raised) /\ UNCHANGED <<window, last_call>>
           ELSE /\ window' = range_check(window, size, ul.val, ll.val, num_reads = 10)
                /\ last_call' = [NoCall EXCEPT !.op = "range_check",
                                               !.arg = (num_reads = 10)]
                /\ pc' = "ema" /\ UNCHANGED error
    /\ UNCHANGED <<size, devVars, last_changed, last_EMA, mode, model, alerts, null_seen,
                   csvVars, mqttVars, n_calls>>

\* 177: last_EMA = do_EMA(window, last_EMA, 0.4)
MqEMA ==
    /\ mode = "mqtt" /\ pc = "ema"
    /\ LET e == do_EMA(window, last_EMA, EmaAlpha)
       IN  window' = e.win /\ last_EMA' = e.ret
    /\ pc' = "med"
    /\ UNCHANGED <<size, devVars, last_changed, mode, error, model, alerts, null_seen,
                   csvVars, mqttVars, harnessVars>>

\* 180: med_filter(window, 3)
MqMed ==
    /\ mode = "mqtt" /\ pc = "med"
    /\ window' = med_filter(window, 3)
    /\ pc' = "cusum"
    /\ UNCHANGED <<size, devVars, last_changed, last_EMA, mode, error, model, alerts,
                   null_seen, csvVars, mqttVars, harnessVars>>

\* 183: CUSUM(CT_plus_win, CT_min_win, window.get_win_vals(), last_EMA): as in
\* run_csv the list argument makes CUSUM raise AttributeError; the except
\* clause of run_sensors catches KeyboardInterrupt only.  Lines 184-191 are
\* never reached.
MqCUSUM ==
    /\ mode = "mqtt" /\ pc = "cusum"
    /\ LET c == CUSUM_get_win_vals(PyList(get_win_vals(window)))
       IN  c.raised # "none" /\ Raise(c.raised)
    /\ UNCHANGED <<stageVars, mode, model, alerts, null_seen, csvVars, mqttVars,
                   harnessVars>>

\* 194-195: client.clear_readings(), time.sleep(1)
MqClear ==
    /\ mode = "mqtt" /\ pc = "clear"
    /\ readings' = <<>>
    /\ pc' = "poll"
    /\ UNCHANGED <<stageVars, mode, error, model, alerts, null_seen, csvVars,
                   reading, num_reads, clean_vals, sensor, harnessVars>>

MqttNext ==
    \/ OnMessage
    \/ MqPoll \/ MqAdmit \/ MqSeed \/ MqConst \/ MqRange \/ MqEMA \/ MqMed \/ MqCUSUM
    \/ MqClear

Next == CsvNext \/ MqttNext

Spec == Init /\ [][Next]_vars

---------------------------------------------------------------------------
(* Claims about the two drivers, checked under Spec *)

\* a reading that is null by the specification's list: value None or NaN, or
\* timestamp None, NaN or '0'
NullReading(r) ==
    \/ r.value.k \in {"None", "NaN"}
    \/ r.time_stamp.k \in {"None", "NaN", "zero_str"}

NullFree(b) == \A i \in 1..Len(b) : ~NullReading(b[i])

\* the replay is over: run_csv returned or an exception left it
Ended == pc \in {"returned", "raised"}

\* a replay of valid readings of the temperature sensor
ValidTempBatch ==
    /\ mode = "csv"
    /\ batch # <<>>
    /\ NullFree(batch)
    /\ \A i \in 1..Len(batch) : batch[i].sensor_type = "TEMP_sensor"

\* C1: for a batch of N readings replayed in bulk mode, run_csv returns a
\* list of exactly N cleaned readings, and the i-th output carries the
\* timestamp, sensor type and unit of the i-th input reading.
C1_BulkReplayYieldsAllReadings ==
    (ValidTempBatch /\ Ended) =>
        /\ pc = "returned"
        /\ Len(cleaned_data) = Len(batch)
        /\ \A i \in 1..Len(batch) :
              /\ cleaned_data[i].time_stamp = batch[i].time_stamp
              /\ cleaned_data[i].sensor_type = batch[i].sensor_type
              /\ cleaned_data[i].unit_of_measurement = batch[i].unit_of_measurement

C7_NullNeverStored ==
    \A i \in 1..Len(window) : ~NullReading(window[i])

\* C7 witness: a replay that met a null reading and went on to run the
\* constant-fault check, range validation, median filter and EMA on a full
\* window, and is about to call CUSUM.
C7_Witness ==
    /\ mode = "csv"
    /\ null_seen > 0
    /\ pc = "cusum"
    /\ Len(window) = logical_size
    /\ \E i \in 1..logical_size : NullReading(batch[i])

\* C8: a null reading is discarded without an error, and the driver goes on:
\* no driver that has met a null reading stops with an exception.
C8_NullDiscardedSilently ==
    null_seen > 0 => (pc # "raised" /\ error = "none")

\* every reading of the batch shows the same value
AllSameValue(b) == \A i \in 1..Len(b) : b[i].value = b[1].value

\* C10: when every reading has the same value, a constant-value fault is
\* reported on the first STEADY step whose newest timestamp is more than 30
\* minutes after the timestamp recorded in LastChanged: in a replay whose
\* 11th reading is more than 30 minutes after the 10th (the newest entry of
\* the first full window), the step whose newest entry is the 11th reading
\* reports the fault.
C10_PlateauFaultReported ==
    (/\ ValidTempBatch /\ Ended
     /\ Len(batch) >= logical_size + 2
     /\ AllSameValue(batch)
     /\ ElapsedMinutes(batch[logical_size].time_stamp,
                       batch[logical_size + 1].time_stamp) > ThirtyMinutes)
    => \E i \in 1..Len(alerts) :
          /\ alerts[i].type = 1
          /\ alerts[i].time = batch[logical_size + 1].time_stamp

\* the STEADY step in progress is the first one of the stream
FirstSteadyStep ==
    IF mode = "csv" THEN cleaned_data = <<>> ELSE clean_vals = <<>>

\* C11: when the constant-fault check is about to run, LastChanged no longer
\* holds main()'s placeholder [0, 0]; on the first full window it is the
\* (value, timestamp) of the window's newest entry.
C11_LastChangedSeededBeforeFirstCheck ==
    pc = "const" =>
        /\ last_changed # <<Num(0), IntZero>>
        /\ FirstSteadyStep =>
              last_changed = <<Newest(window).value, Newest(window).time_stamp>>

\* C12: at the FILL->STEADY transition last_EMA and last_smoothed_target
\* (run_csv's target; in run_sensors last_EMA itself is what CUSUM is given)
\* both hold the value of the main window's newest entry: this is so when
\* the stages of the first STEADY step start.
C12_SmoothingStateSeededAtTransition ==
    (pc = "const" /\ FirstSteadyStep) =>
        /\ last_EMA = Newest(window).value
        /\ mode = "csv" => target = Newest(window).value

\* the stage that runs next in the STEADY step in progress
StagePcs == {"const", "range", "ema", "med", "cusum"}

\* C13: in every STEADY step of either mode the stages run in the order
\* constant-fault check, range validation, EMA, median filter, CUSUM: a
\* stage that completes is followed by the next stage of that order.
C13_StagesRunInSpecifiedOrder ==
    [][(pc \in StagePcs /\ pc' \in StagePcs /\ pc' # pc) =>
          \/ pc = "const" /\ pc' = "range"
          \/ pc = "range" /\ pc' = "ema"
          \/ pc = "ema" /\ pc' = "med"
          \/ pc = "med" /\ pc' = "cusum"]_vars

\* C14: range_check is called with check_all=true on the first STEADY step of
\* a stream and with check_all=false on every later one: the flag of the
\* call made in the step in progress says whether that step is the first.
C14_CheckAllOnFirstStepOnly ==
    (last_call.op = "range_check" /\ pc \in StagePcs) =>
        last_call.arg = FirstSteadyStep

---------------------------------------------------------------------------
(* SpecStages: the preprocessing stages called on a full window, one call  *)
(* after another, as the statements of the steady loop call them.  The     *)
(* windows hold every combination of a few values below, inside, on and    *)
(* above the limits, and the example window of preprocessor.py's main().   *)

\* number of stage calls made on one window
MaxStageCalls == 2

StageValues == {Num(-20), Num(10), Num(75), Num(100)}

\* preprocessor.py:102, the example window
ExampleVals == <<Num(10), Num(9), Num(10), Num(100), Num(13), Num(14), Num(10)>>

\* (UL, LL) pairs: the example's (75, -12) and the temperature limits
StageLimits == {<<Num(75), Num(-12)>>, <<Num(45), Num(-10)>>}

StageAlphas == {EmaAlpha, Num(1)}

StageWindow(vals) ==
    [i \in 1..Len(vals) |-> DataPoint(vals[i], TimeAt(i), "TEMP_sensor", "C")]

StageWindows ==
    {StageWindow(vals) : vals \in [1..3 -> StageValues] \cup [1..4 -> StageValues]}
        \cup {StageWindow(ExampleVals)}

SInit ==
    /\ window \in StageWindows
    /\ size = Len(window)
    /\ last_changed = <<Num(0), IntZero>>
    /\ last_EMA \in {Num(0), Num(10)}
    /\ DriverIdle
    /\ last_call = NoCall
    /\ n_calls = 0

\* range_check(window, UL, LL, all_vals)
SRange ==
    /\ n_calls < MaxStageCalls
    /\ \E lim \in StageLimits, all_vals \in BOOLEAN :
          /\ window' = range_check(window, size, lim[1], lim[2], all_vals)
          /\ last_call' = [NoCall EXCEPT !.op = "range_check", !.pre = window,
                                         !.arg = <<lim[1], lim[2], all_vals>>]
    /\ n_calls' = n_calls + 1
    /\ UNCHANGED <<size, devVars, last_changed, last_EMA, driverVars>>

\* med_filter(window, 3)
SMed ==
    /\ n_calls < MaxStageCalls
    /\ window' = med_filter(window, 3)
    /\ last_call' = [NoCall EXCEPT !.op = "med_filter", !.pre = window, !.arg = 3]
    /\ n_calls' = n_calls + 1
    /\ UNCHANGED <<size, devVars, last_changed, last_EMA, driverVars>>

\* last_EMA = do_EMA(window, last_EMA, alpha)
SEMA ==
    /\ n_calls < MaxStageCalls
    /\ \E alpha \in StageAlphas :
          LET e == do_EMA(window, last_EMA, alpha)
          IN  /\ window' = e.win
              /\ last_EMA' = e.ret
              /\ last_call' = [NoCall EXCEPT !.op = "do_EMA", !.pre = window,
                                             !.arg = <<last_EMA, alpha>>,
                                             !.ret = e.ret]
    /\ n_calls' = n_calls + 1
    /\ UNCHANGED <<size, devVars, last_changed, driverVars>>

SNext == SRange \/ SMed \/ SEMA

SpecStages == SInit /\ [][SNext]_vars

\* the values of the entries of w
ValuesOf(w) == [i \in 1..Len(w) |-> w[i].value]

\* the arithmetic mean of the values of all entries of w other than entry i
MeanOfOthers(w, i) ==
    RMul(RSum([j \in 1..(Len(w) - 1) |-> IF j < i THEN w[j].value ELSE w[j + 1].value]),
         Rat(1, Len(w) - 1))

\* v is above upper or below lower
Outside(v, upper, lower) ==
    v.n * upper.d > upper.n * v.d \/ v.n * lower.d < lower.n * v.d

\* C15: range_check with check_all=true replaces each entry of the full
\* window whose value is above upper or below lower by the mean of the values
\* all other entries had before the call, and leaves every in-range entry
\* unchanged; [10,9,10,100,13,14,10] with bounds (75,-12) yields 11 at index
\* 3 and no other change.
C15_CheckAllReplacesByMeanOfOthers ==
    (last_call.op = "range_check" /\ last_call.arg[3]) =>
        LET pre == last_call.pre
            upper == last_call.arg[1]
            lower == last_call.arg[2]
        IN  /\ Len(window) = Len(pre)
            /\ \A i \in 1..Len(pre) :
                  window[i].value =
                     IF Outside(pre[i].value, upper, lower)
                     THEN MeanOfOthers(pre, i)
                     ELSE pre[i].value
            /\ (ValuesOf(pre) = ExampleVals /\ upper = Num(75) /\ lower = Num(-12))
                  => ValuesOf(window) = [ExampleVals EXCEPT ![4] = Num(11)]

\* C15 witness: a call on a window with two offending entries, -20 and 100
\* around an in-range 10 under the limits (75, -12): each is replaced by the
\* mean of the other two original values.
C15_Witness ==
    /\ last_call.op = "range_check" /\ last_call.arg[3]
    /\ ValuesOf(last_call.pre) = <<Num(-20), Num(10), Num(100)>>
    /\ last_call.arg[1] = Num(75)
    /\ ValuesOf(window) = <<Num(55), Num(10), Num(-5)>>

\* C16: range_check with check_all=false examines only the newest entry: if
\* its value is outside [lower, upper] it is replaced by the mean of all
\* other entries' current values, otherwise nothing changes; every other
\* entry's value and the window's length are unchanged in both cases.
C16_NewestOnlyReplacedByMeanOfOthers ==
    (last_call.op = "range_check" /\ ~last_call.arg[3]) =>
        LET pre == last_call.pre
            upper == last_call.arg[1]
            lower == last_call.arg[2]
            newest == Len(pre)
        IN  /\ Len(window) = Len(pre)
            /\ \A i \in 1..(newest - 1) : window[i] = pre[i]
            /\ window[newest].value =
                  IF Outside(pre[newest].value, upper, lower)
                  THEN MeanOfOthers(pre, newest)
                  ELSE pre[newest].value
            /\ ~Outside(pre[newest].value, upper, lower) => window = pre

\* C16 witness: the newest entry 100 is replaced by the mean of the others
\* while an older offending entry (-20) is left as it is.
C16_Witness ==
    /\ last_call.op = "range_check" /\ ~last_call.arg[3]
    /\ ValuesOf(last_call.pre) = <<Num(-20), Num(10), Num(100)>>
    /\ last_call.arg[1] = Num(75)
    /\ ValuesOf(window) = <<Num(-20), Num(10), Num(-5)>>

\* a <= b on sensor values
Leq(a, b) == a.n * b.d <= b.n * a.d

\* m is the median of the three values: one of them, with at least two of
\* the three at or below it and at least two at or above it
IsMedianOfThree(m, three) ==
    /\ \E i \in 1..3 : three[i] = m
    /\ Cardinality({i \in 1..3 : Leq(three[i], m)}) >= 2
    /\ Cardinality({i \in 1..3 : Leq(m, three[i])}) >= 2

\* C17: med_filter(window, 3) changes at most the entry at index 1, setting
\* its value to the median of the values at indices 0, 1 and 2; the entries
\* at index 0 and at every index >= 2 are never changed.
C17_MedianFilterWritesIndexOneOnly ==
    last_call.op = "med_filter" =>
        LET pre == last_call.pre
        IN  /\ Len(window) = Len(pre)
            /\ \A i \in 1..Len(pre) : i # 2 => window[i] = pre[i]
            /\ IsMedianOfThree(window[2].value,
                               <<pre[1].value, pre[2].value, pre[3].value>>)
            /\ window[2].time_stamp = pre[2].time_stamp

\* C17 witness: a spike at index 1 of a 4-entry window is replaced by the
\* median of the three oldest values; the newest entry, also a spike, stays.
C17_Witness ==
    /\ last_call.op = "med_filter"
    /\ ValuesOf(last_call.pre) = <<Num(10), Num(100), Num(-20), Num(100)>>
    /\ ValuesOf(window) = <<Num(10), Num(10), Num(-20), Num(100)>>

\* x = alpha*latest + (1 - alpha)*last, on the fractions n/d: with
\* alpha = p/q, latest = a/b and last = c/e this is
\*   x.n * (q*b*e) = x.d * (p*a*e + (q - p)*c*b)
IsEMA(x, alpha, latest, last) ==
    x.n * (alpha.d * latest.d * last.d) =
        x.d * (alpha.n * latest.n * last.d
                 + (alpha.d - alpha.n) * last.n * latest.d)

\* C18: do_EMA(window, last_EMA, alpha) computes
\* new = alpha*latest + (1-alpha)*last_EMA with latest the newest entry's
\* value before the call, overwrites only the newest entry's value with new,
\* and returns new; the returned value is the last_EMA the drivers carry to
\* the next call.
C18_EMAFormulaAndFrame ==
    last_call.op = "do_EMA" =>
        LET pre == last_call.pre
            newest == Len(pre)
            passed == last_call.arg[1]
            alpha == last_call.arg[2]
        IN  /\ IsEMA(last_call.ret, alpha, pre[newest].value, passed)
            /\ Len(window) = Len(pre)
            /\ \A i \in 1..(newest - 1) : window[i] = pre[i]
            /\ window[newest] = [pre[newest] EXCEPT !.value = last_call.ret]
            /\ last_EMA = last_call.ret

\* C18 witness: with alpha 0.4, a newest value of 100 and a last_EMA of 10
\* the call returned 46 and wrote it to the newest entry.
C18_Witness ==
    /\ last_call.op = "do_EMA"
    /\ last_call.arg = <<Num(10), EmaAlpha>>
    /\ last_call.pre[Len(last_call.pre)].value = Num(100)
    /\ last_call.ret = Num(46)
    /\ window[Len(window)].value = Num(46)
    /\ last_EMA = Num(46)

---------------------------------------------------------------------------
(* err_detections.py: CUSUM and the statistics it is built on *)

RSub(a, b) == RAdd(a, RMul(Num(-1), b))
RDiv(a, b) == Only({Rat(p[1].n * p[2].d, p[1].d * p[2].n) : p \in {<<a, b>>}})
\* mutant: the smaller of the two
RMax_takes_smaller(a, b) ==
    Only({IF RLt(p[1], p[2]) THEN p[1] ELSE p[2] : p \in {<<a, b>>}})

\* max(a, b)
RMax(a, b) == Only({IF RLt(p[1], p[2]) THEN p[2] ELSE p[1] : p \in {<<a, b>>}})
RMin(a, b) == Only({IF RLt(p[2], p[1]) THEN p[2] ELSE p[1] : p \in {<<a, b>>}})

RECURSIVE ListMax(_)
ListMax(vals) ==
    IF Len(vals) = 1 THEN vals[1] ELSE RMax(Head(vals), ListMax(Tail(vals)))

RECURSIVE ListMin(_)
ListMin(vals) ==
    IF Len(vals) = 1 THEN vals[1] ELSE RMin(Head(vals), ListMin(Tail(vals)))

\* the square root of a fraction whose numerator and denominator are squares
ISqrt(n) == CHOOSE r \in 0..n : r * r = n
RSqrt(x) == Only({Rat(ISqrt(v.n), ISqrt(v.d)) : v \in {x}})

\* the spacing of doubles next to a sensor value (2^-48 between 16 and 32),
\* scaled to 1/100 so that its squares stay within TLC's integers; only its
\* ratio to the other quantities of that size matters
Ulp == Rat(1, 100)

\* (value, count) for which the float64 mean numpy computes of `count`
\* copies of `value` is not `value`: ten copies of 25.3 sum to
\* 253.00000000000003, and the quotient 25.300000000000004 is one spacing
\* above 25.3
InexactMeans == {<<Rat(253, 10), 10>>}

\* the arithmetic mean as numpy.std computes it (umr_sum / n in float64)
rounded_mean(vals) ==
    IF (\A i \in 1..Len(vals) : vals[i] = vals[1])
         /\ <<vals[1], Len(vals)>> \in InexactMeans
    THEN RAdd(vals[1], Ulp)
    ELSE mean(vals)

\* numpy.std: sqrt(mean((x - x.mean())**2)), the population deviation
std(vals) ==
    Only({RSqrt(mean([i \in 1..Len(vals) |-> RMul(RSub(vals[i], m), RSub(vals[i], m))]))
          : m \in {rounded_mean(vals)}})

\* get_slack(sensor_readings, k=0.5)
get_slack(sensor_readings) == RMul(Rat(1, 2), std(sensor_readings))

\* get_control_lim(sensor_readings, k=5)
get_control_lim(sensor_readings) == RMul(Num(5), std(sensor_readings))

\* get_alpha(window_vals)
get_alpha(window_vals) ==
    Only({LET std_norm == std(window_vals)
          IN  IF std_max = Num(0) THEN Num(0)
              ELSE RMax(Num(0), RMin(Num(1), RDiv(std_norm, std_max)))
          : std_max \in {RMul(RSub(ListMax(window_vals), ListMin(window_vals)),
                              Rat(1, 2))}})

\* mutant: the weights of the newest value and of last_smoothed are exchanged
get_AES_target_weights_swapped(window_vals, last_smoothed) ==
    Only({LET xt == window_vals[Len(window_vals)]
          IN  RAdd(RMul(alpha, last_smoothed), RMul(RSub(Num(1), alpha), xt))
          : alpha \in {get_alpha(window_vals)}})

\* get_AES_target(window_vals, last_smoothed)
get_AES_target(window_vals, last_smoothed) ==
    Only({LET xt == window_vals[Len(window_vals)]
          IN  RAdd(RMul(alpha, xt), RMul(RSub(Num(1), alpha), last_smoothed))
          : alpha \in {get_alpha(window_vals)}})

\* a SlidingWindow handed to CUSUM as `window`
SlidingWindowObj(w) == [type |-> "SlidingWindow", items |-> get_win_vals(w)]

\* mutant: a sum equal to the control limit counts as out of control
out_of_control_geq(CT_plus_sum, CT_minus_sum, control_lim) ==
    ~RLt(CT_plus_sum, control_lim) \/ ~RLt(CT_minus_sum, control_lim)

\* err_detections.py:108: CT_plus_sum > control_lim or CT_minus_sum > control_lim
out_of_control(CT_plus_sum, CT_minus_sum, control_lim) ==
    RLt(control_lim, CT_plus_sum) \/ RLt(control_lim, CT_minus_sum)

\* CUSUM(dev_plus_win, dev_minus_win, window, last_smoothed), the deviation
\* windows being SlidingWindow(dev_size): the exception raised if any, the
\* returned pair, the deviation windows after the call, and its locals
CUSUM(dev_plus_win, dev_minus_win, dev_size, window_arg, last_smoothed) ==
    LET got == CUSUM_get_win_vals(window_arg)
        window_vals == got.val
        target_ == get_AES_target(window_vals, last_smoothed)
        slack == get_slack(window_vals)
        control_lim == get_control_lim(window_vals)
        xi == window_vals[Len(window_vals)]
        dev == RSub(xi, target_)
        dev_plus == RMax(Num(0), RSub(dev, slack))
        dev_minus == RMax(Num(0), RSub(RMul(Num(-1), dev), slack))
        slide == is_full(dev_plus_win, dev_size)
        plus == IF slide THEN slide_next(dev_plus_win, dev_plus).win
                ELSE add_reading(dev_plus_win, dev_plus)
        minus == IF slide THEN slide_next(dev_minus_win, dev_minus).win
                 ELSE add_reading(dev_minus_win, dev_minus)
        CT_plus_sum == RSum(as_list(plus))
        CT_minus_sum == RSum(as_list(minus))
    IN  IF got.raised # "none"
        THEN [raised |-> got.raised, ret |-> NoneVal,
              plus |-> dev_plus_win, minus |-> dev_minus_win, locals |-> NoneVal]
        ELSE [raised |-> "none",
              ret |-> <<~out_of_control(CT_plus_sum, CT_minus_sum, control_lim),
                        control_lim>>,
              plus |-> plus, minus |-> minus,
              locals |-> [target |-> target_, slack |-> slack, dev |-> dev,
                          dev_plus |-> dev_plus, dev_minus |-> dev_minus]]

---------------------------------------------------------------------------
(* SpecCusum: CUSUM called step after step with a SlidingWindow as its     *)
(* `window` argument, on main windows of ten readings whose deviation is   *)
(* an exact fraction: ten equal values, or nine equal values followed by   *)
(* one that is 10 above them (deviation 3).                                *)

\* number of CUSUM steps
MaxCusumCalls == 3
\* size of the two deviation windows
DevSize == 2

\* ten readings: value b at position p (if any), a everywhere else
TenReadings(a, b, p) ==
    [i \in 1..10 |->
        DataPoint(IF i = p THEN b ELSE a, TimeAt(i), "TEMP_sensor", "C")]

CusumWindows ==
    {TenReadings(Num(20), Num(20), 0), TenReadings(Rat(253, 10), Rat(253, 10), 0),
     TenReadings(Num(20), Num(30), 10)}

\* last_smoothed: equal to a window value, one spacing below one, and the
\* value that puts the deviation of the window ending in 30 on its control
\* limit (15)
LastSmoothed ==
    {Num(20), Rat(253, 10), RSub(Rat(253, 10), Ulp), Rat(-45, 4)}

SCInit ==
    /\ window \in CusumWindows
    /\ size = 10
    /\ last_changed = <<Num(0), IntZero>>
    /\ last_EMA = Num(0)
    /\ DriverIdle
    /\ last_call = NoCall
    /\ n_calls = 0

\* one step: the main window is w and CUSUM is called on it; last_call keeps
\* the locals of the call and the alpha get_AES_target obtained (line 161)
CusumCall ==
    /\ n_calls < MaxCusumCalls
    /\ \E w \in CusumWindows, last_smoothed \in LastSmoothed :
          \E c \in {CUSUM(CT_plus_win, CT_min_win, DevSize, SlidingWindowObj(w),
                          last_smoothed)} :
              /\ window' = w
              /\ CT_plus_win' = c.plus
              /\ CT_min_win' = c.minus
              /\ last_call' = [op |-> "CUSUM", pre |-> <<CT_plus_win, CT_min_win>>,
                               arg |-> <<get_win_vals(w), last_smoothed>>,
                               ret |-> c.ret, raised |-> c.raised,
                               locals |-> c.locals,
                               alpha |-> get_alpha(get_win_vals(w))]
    /\ n_calls' = n_calls + 1
    /\ UNCHANGED <<size, last_changed, last_EMA, driverVars>>

SCNext == CusumCall

SpecCusum == SCInit /\ [][SCNext]_vars

\* C19: CUSUM reports out of control exactly when the sum of the dev_plus
\* window or the sum of the dev_minus window, taken after this step's
\* deviations were pushed, is strictly greater than the control limit of the
\* current main window; a sum equal to the control limit is in control.
C19_OutOfControlIffSumExceedsLimit ==
    (last_call.op = "CUSUM" /\ last_call.raised = "none") =>
        LET in_control == last_call.ret[1]
            control_lim == last_call.ret[2]
            plus_sum == RSum(CT_plus_win)
            minus_sum == RSum(CT_min_win)
        IN  /\ in_control = ~(\/ plus_sum.n * control_lim.d > control_lim.n * plus_sum.d
                              \/ minus_sum.n * control_lim.d > control_lim.n * minus_sum.d)
            /\ (plus_sum = control_lim /\ ~RLt(control_lim, minus_sum)) => in_control

\* C19 witness: the sum of the dev_plus window equals a control limit of 15
\* and the step is in control; one more positive deviation puts it out.
C19_Witness ==
    /\ last_call.op = "CUSUM"
    /\ last_call.ret = <<TRUE, Num(15)>>
    /\ RSum(CT_plus_win) = Num(15)

\* C20: when every value in the main window is equal, slack and control
\* limit are both 0, and the step is reported out of control whenever its
\* deviation newest - target is nonzero.
C20_ZeroVarianceFlagsAnyDeviation ==
    (/\ last_call.op = "CUSUM" /\ last_call.raised = "none"
     /\ \A i \in 1..Len(last_call.arg[1]) : last_call.arg[1][i] = last_call.arg[1][1])
    => /\ last_call.locals.slack = Num(0)
       /\ last_call.ret[2] = Num(0)
       /\ last_call.locals.dev # Num(0) => last_call.ret[1] = FALSE


\* every value of the list is the same
AllEqual(vals) == \A i \in 1..Len(vals) : vals[i] = vals[1]

\* C21: when all values in the window are equal (max == min), get_alpha
\* returns 0 and get_AES_target returns last_smoothed unchanged, whatever the
\* newest value and whatever last_smoothed are.
C21_ZeroSpreadKeepsLastSmoothed ==
    (last_call.op = "CUSUM" /\ last_call.raised = "none"
        /\ AllEqual(last_call.arg[1]))
    => /\ last_call.alpha = Num(0)
       /\ last_call.locals.target = last_call.arg[2]

\* C21 witness: ten readings of 20 and a last_smoothed of -45/4, far from the
\* newest value: the target of the step is -45/4.
C21_Witness ==
    /\ last_call.op = "CUSUM"
    /\ AllEqual(last_call.arg[1]) /\ last_call.arg[1][10] = Num(20)
    /\ last_call.arg[2] = Rat(-45, 4)
    /\ last_call.alpha = Num(0)
    /\ last_call.locals.target = Rat(-45, 4)


\* C22: CUSUM returns the in-control flag, the updated target and the
\* control limit (the target being what the driver hands to the next step as
\* last_smoothed_target): a call that returns, returns these three, the
\* second being the target it computed.
C22_CusumReturnsTargetForNextStep ==
    (last_call.op = "CUSUM" /\ last_call.raised = "none") =>
        /\ Len(last_call.ret) = 3
        /\ last_call.ret[1] \in BOOLEAN
        /\ last_call.ret[2] = last_call.locals.target
        /\ last_call.ret[3] = get_control_lim(last_call.arg[1])


---------------------------------------------------------------------------
(* main.py: the safe range of the forecast, and SpecConfig: the four       *)
(* configuration lookups requested for windows of every configured sensor  *)
(* type and of types the table does not hold                               *)

\* get_ML_range(sensor_type): (high, low); sequential ifs, no default (low
\* and high unbound for other types)
get_ML_range(sensor_type) ==
    IF sensor_type \in {"Pvoltage_sensor", "Bvoltage_sensor"}
    THEN [raised |-> "none", val |-> <<Num(50), Rat(-1, 1000000)>>]
    ELSE IF sensor_type \in {"SSTEMP_sensor", "TEMP_sensor"}
    THEN [raised |-> "none", val |-> <<Num(30), Num(8)>>]
    ELSE IF sensor_type = "illuminance_sensor"
    THEN [raised |-> "none", val |-> <<Num(100000), Rat(-1, 1000000)>>]
    ELSE IF sensor_type = "SSHUM_sensor"
    THEN [raised |-> "none", val |-> <<Num(80), Num(15)>>]
    ELSE IF sensor_type = "PH_sensor"
    THEN [raised |-> "none", val |-> <<Num(50), Num(-15)>>]
    ELSE IF sensor_type = "WINDDIR_sensor"
    THEN [raised |-> "none", val |-> <<Num(361), Rat(-1, 1000000)>>]
    ELSE [raised |-> "UnboundLocalError", val |-> <<Num(0), Num(0)>>]

\* number of lookups made in SpecConfig
MaxLookups == 2

\* the sensor types a reading can carry: the configured ones, the
\* device_class on_message falls back to, and one the table never had
ConfigTypes == KnownSensorTypes \cup {"unknown", "CO2_sensor"}

ConfigInit ==
    /\ \E v \in CValues, st \in ConfigTypes :
          window = <<DataPoint(v, TimeAt(0), st, "u")>>
    /\ size = 1
    /\ last_changed = <<Num(0), IntZero>>
    /\ last_EMA = Num(0)
    /\ DriverIdle
    /\ last_call = NoCall
    /\ n_calls = 0

\* the record of a lookup: the sensor type asked for and the outcome
LookupCall(op, r) ==
    [NoCall EXCEPT !.op = op, !.arg = get_sensor_type(window).val,
                   !.ret = r.val, !.raised = r.raised]

LookupUL ==
    /\ n_calls < MaxLookups
    /\ last_call' = LookupCall("get_UL", get_UL(window))
    /\ n_calls' = n_calls + 1
    /\ UNCHANGED <<stageVars, driverVars>>

LookupLL ==
    /\ n_calls < MaxLookups
    /\ last_call' = LookupCall("get_LL", get_LL(window))
    /\ n_calls' = n_calls + 1
    /\ UNCHANGED <<stageVars, driverVars>>

LookupMaxTime ==
    /\ n_calls < MaxLookups
    /\ last_call' = LookupCall("get_max_time", get_max_time(window))
    /\ n_calls' = n_calls + 1
    /\ UNCHANGED <<stageVars, driverVars>>

LookupMLRange ==
    /\ n_calls < MaxLookups
    /\ last_call' = LookupCall("get_ML_range",
                               get_ML_range(get_sensor_type(window).val))
    /\ n_calls' = n_calls + 1
    /\ UNCHANGED <<stageVars, driverVars>>

ConfigNext == LookupUL \/ LookupLL \/ LookupMaxTime \/ LookupMLRange

SpecConfig == ConfigInit /\ [][ConfigNext]_vars

\* C23: for a sensor type that is not one of the configured types, every
\* configuration lookup (get_UL, get_LL, get_max_time, get_ML_range) fails
\* with an error at the point it is requested: none returns a limit.
C23_UnknownSensorTypeFailsEveryLookup ==
    (last_call.op \in {"get_UL", "get_LL", "get_max_time", "get_ML_range"}
        /\ last_call.arg \notin KnownSensorTypes)
    => last_call.raised # "none"


---------------------------------------------------------------------------
(* Further claims about the two drivers, checked under Spec *)

\* a replay of valid readings of a sensor stuck on one value, the 11th
\* reading more than 30 minutes after the 10th: the step whose newest entry
\* is the 11th reading has a constant-value fault to report
StuckSensorReplay ==
    /\ ValidTempBatch
    /\ Len(batch) >= logical_size + 2
    /\ AllSameValue(batch)
    /\ ElapsedMinutes(batch[logical_size].time_stamp,
                      batch[logical_size + 1].time_stamp) > ThirtyMinutes

---------------------------------------------------------------------------
(* main.py: is_dangerous_prediction, and SpecPredict: the check called on  *)
(* a full window of a temperature sensor (the one sensor type a Model can  *)
(* be loaded for) with whatever the forecasting model predicts             *)

\* int(x) of a float: truncation towards zero
PyInt(x) == IF x.n >= 0 THEN x.n \div x.d ELSE -((-x.n) \div x.d)

\* `i not in range(lower, upper)` for an int i: range() takes ints only, and
\* the limits of the table are ints unless written with a decimal point
not_in_range(i, lower, upper) ==
    IF lower.d # 1 \/ upper.d # 1
    THEN [raised |-> "TypeError", val |-> FALSE]
    ELSE [raised |-> "none", val |-> ~(lower.n <= i /\ i < upper.n)]

\* is_dangerous_prediction(model, window, bot), predicted_values being what
\* model.predict(vals, times) returned: the flag, the err_log call made (if
\* any) and the exception raised (if any)
is_dangerous_prediction(w, predicted_values) ==
    LET times == get_win_times(w)
        sensor_ == get_sensor_type(w).val
        rng == get_ML_range(sensor_)
        upper == rng.val[1]
        lower == rng.val[2]
        last == PyInt(predicted_values[Len(predicted_values)])
        outside == not_in_range(last, lower, upper)
    IN  IF rng.raised # "none"
        THEN [raised |-> rng.raised, ret |-> FALSE, log |-> <<>>]
        ELSE IF outside.raised # "none"
        THEN [raised |-> outside.raised, ret |-> FALSE, log |-> <<>>]
        ELSE IF outside.val
        THEN [raised |-> "none", ret |-> TRUE,
              log |-> <<err_log(3, DataPoint(Num(last), times[Len(w)], sensor_,
                                             w[1].unit_of_measurement))>>]
        ELSE [raised |-> "none", ret |-> FALSE, log |-> <<>>]

\* number of forecasts checked in SpecPredict
MaxPredictions == 2

\* predicted temperatures: below, on, between and above the limits 8 and 30
PredValues ==
    {Rat(-1, 2), Num(7), Rat(15, 2), Num(8), Num(20), Rat(59, 2), Num(30),
     Rat(61, 2), Num(31)}

PredictInit ==
    /\ window \in {TenReadings(Num(20), Num(20), 0), TenReadings(Num(20), Num(30), 10)}
    /\ size = logical_size
    /\ last_changed = <<Num(0), IntZero>>
    /\ last_EMA = Num(0)
    /\ DriverIdle
    /\ last_call = NoCall
    /\ n_calls = 0

\* one call: the model predicts a sequence that ends in `final` after
\* `earlier` (48 values in prediction.py; two stand for them)
Predict ==
    /\ n_calls < MaxPredictions
    /\ \E earlier \in PredValues, final \in PredValues :
          LET r == is_dangerous_prediction(window, <<earlier, final>>)
          IN  /\ alerts' = alerts \o r.log
              /\ last_call' = [NoCall EXCEPT !.op = "is_dangerous_prediction",
                                             !.pre = window,
                                             !.arg = <<earlier, final>>,
                                             !.ret = r.ret, !.raised = r.raised]
    /\ n_calls' = n_calls + 1
    /\ UNCHANGED <<stageVars, mode, pc, error, model, null_seen, csvVars, mqttVars>>

PredictNext == Predict

SpecPredict == PredictInit /\ [][PredictNext]_vars

\* C25: is_dangerous_prediction reports a dangerous-prediction fault exactly
\* when the final predicted value lies outside the closed interval
\* [safe_low, safe_high] of the window's sensor type: a final value equal to
\* safe_low or safe_high, or between them, raises no fault, any final value
\* below safe_low or above safe_high raises one, and the earlier predicted
\* values are not consulted.
C25_FaultIffFinalOutsideClosedRange ==
    last_call.op = "is_dangerous_prediction" =>
        LET final == last_call.arg[Len(last_call.arg)]
            safe == get_ML_range(last_call.pre[1].sensor_type).val
            safe_high == safe[1]
            safe_low == safe[2]
        IN  /\ last_call.raised = "none"
            /\ last_call.ret =
                  (\/ final.n * safe_low.d < safe_low.n * final.d
                   \/ final.n * safe_high.d > safe_high.n * final.d)


\* the readings run_sensors has picked up: those it admitted to the window,
\* of which the evicted ones are in clean_vals
PickedUp == Len(window) + Len(clean_vals)

\* C26: in continuous mode every reading appended by on_message is picked up
\* by the polling loop exactly once: when the loop is about to poll and the
\* list of received readings is empty, the readings picked up so far are as
\* many as on_message has appended.
C26_EveryReadingPickedUpOnce ==
    (mode = "mqtt" /\ pc = "poll" /\ readings = <<>>) =>
        PickedUp = sensor.sent


\* the readings emitted as cleaned output so far
Emitted == IF mode = "csv" THEN Len(cleaned_data) ELSE Len(clean_vals)

\* a STEADY step has run its range validation and is over
SteadyStepOver == last_call.op = "range_check" /\ pc \notin StagePcs

\* C27: every STEADY step emits exactly one cleaned reading, the one evicted
\* by that step's slide, in both driving modes: once a STEADY step is over,
\* at least the reading of that step has been emitted.
C27_EachSteadyStepEmitsOneReading ==
    SteadyStepOver => Emitted >= 1


---------------------------------------------------------------------------
(* A further claim about is_const_err, checked under SpecConst *)

\* C29: is_const_err changes LastChanged only when the newest value differs
\* from LastChanged.value, then setting it to (newest value, newest
\* timestamp); when the values are equal LastChanged keeps the value and
\* timestamp it had, fault or no fault; and is_const_err never changes any
\* entry of the window.
C29_ConstErrFrame ==
    last_call.op = "is_const_err" =>
        LET newest == last_call.pre[Len(last_call.pre)]
            before == last_call.arg
        IN  /\ window = last_call.pre
            /\ last_changed =
                  IF newest.value # before[1]
                  THEN <<newest.value, newest.time_stamp>>
                  ELSE before

\* C29 witness: a call that reported a fault (equal values, more than 30
\* minutes elapsed) and left LastChanged as it was, on a window of two.
C29_Witness ==
    /\ last_call.op = "is_const_err"
    /\ last_call.ret = TRUE
    /\ Len(window) = 2
    /\ last_changed = last_call.arg
    /\ last_changed[2] # window[2].time_stamp


---------------------------------------------------------------------------
(* A further claim about the drivers, checked under Spec *)

\* C30: every reading emitted as cleaned output (evicted by a slide, or
\* drained at the end of a bulk replay) has, before its emission, been
\* examined by range validation: no reading is emitted by a driver that never
\* called range_check.
C30_EmittedReadingsWereRangeChecked ==
    (cleaned_data # <<>> \/ clean_vals # <<>>) => last_call.op = "range_check"


---------------------------------------------------------------------------
(* SpecFrame: all six pipeline stages called on a window, one call after   *)
(* another in any order: the three preprocessing stages of SpecStages, and *)
(* is_const_err, CUSUM (given the SlidingWindow itself, on windows whose    *)
(* deviation is exact: all values equal) and is_dangerous_prediction.      *)

\* last_smoothed handed to CUSUM in SpecFrame
FrameSmoothed == {Num(10), Num(20)}

\* final predicted value handed to is_dangerous_prediction in SpecFrame
FrameForecasts == {Num(20), Num(31)}

\* is_const_err(window, last_changed, get_max_time(window))
FConst ==
    /\ n_calls < MaxStageCalls
    /\ LET c == is_const_err(window, last_changed, get_max_time(window).val)
       IN  /\ last_changed' = c.lc
           /\ last_call' = [NoCall EXCEPT !.op = "is_const_err", !.pre = window,
                                          !.arg = last_changed, !.ret = c.ret,
                                          !.raised = c.raised]
    /\ n_calls' = n_calls + 1
    /\ UNCHANGED <<window, size, devVars, last_EMA, driverVars>>

\* CUSUM(CT_plus_win, CT_min_win, window, last_smoothed)
FCusum ==
    /\ n_calls < MaxStageCalls
    /\ \A i \in 1..Len(window) : window[i].value = window[1].value
    /\ \E last_smoothed \in FrameSmoothed :
          \E c \in {CUSUM(CT_plus_win, CT_min_win, DevSize,
                          SlidingWindowObj(window), last_smoothed)} :
              /\ CT_plus_win' = c.plus
              /\ CT_min_win' = c.minus
              /\ last_call' = [NoCall EXCEPT !.op = "CUSUM", !.pre = window,
                                             !.arg = last_smoothed,
                                             !.ret = c.ret, !.raised = c.raised]
    /\ n_calls' = n_calls + 1
    /\ UNCHANGED <<window, size, last_changed, last_EMA, driverVars>>

\* is_dangerous_prediction(model, window, bot)
FPredict ==
    /\ n_calls < MaxStageCalls
    /\ \E final \in FrameForecasts :
          LET r == is_dangerous_prediction(window, <<final>>)
          IN  /\ alerts' = alerts \o r.log
              /\ last_call' = [NoCall EXCEPT !.op = "is_dangerous_prediction",
                                             !.pre = window, !.arg = <<final>>,
                                             !.ret = r.ret, !.raised = r.raised]
    /\ n_calls' = n_calls + 1
    /\ UNCHANGED <<stageVars, mode, pc, error, model, null_seen, csvVars, mqttVars>>

FrameNext == SRange \/ SMed \/ SEMA \/ FConst \/ FCusum \/ FPredict

SpecFrame == SInit /\ [][FrameNext]_vars

\* C31: no pipeline stage (is_const_err, range_check, do_EMA, med_filter,
\* CUSUM, is_dangerous_prediction) changes the timestamp, sensor type or unit
\* of any entry of the main window, nor the number or order of its entries;
\* change_val overwrites only the value field of the one indexed entry, index
\* -1 addressing the newest entry (as do_EMA uses it).
C31_StagesKeepIdentityOfEntries ==
    last_call.op # "none" =>
        LET pre == last_call.pre
        IN  /\ Len(window) = Len(pre)
            /\ \A i \in 1..Len(pre) :
                  /\ window[i].time_stamp = pre[i].time_stamp
                  /\ window[i].sensor_type = pre[i].sensor_type
                  /\ window[i].unit_of_measurement = pre[i].unit_of_measurement
            /\ last_call.op \in {"is_const_err", "CUSUM", "is_dangerous_prediction"}
                  => window = pre
            /\ last_call.op = "do_EMA" =>
                  /\ \A i \in 1..(Len(pre) - 1) : window[i] = pre[i]
                  /\ window[Len(pre)].value = last_call.ret

\* C31 witness: do_EMA has overwritten the value of the newest entry, whose
\* timestamp is still the one it had.
C31_Witness ==
    /\ last_call.op = "do_EMA"
    /\ window[Len(window)].value # last_call.pre[Len(window)].value
    /\ window[Len(window)].time_stamp = TimeAt(Len(window))


---------------------------------------------------------------------------
(* Further claims about CUSUM, checked under SpecCusum *)

\* w after one more entry x under the fill-then-slide discipline of a
\* window of DevSize entries
PushedInto(w, x) == (IF Len(w) >= DevSize THEN Tail(w) ELSE w) \o <<x>>

\* C32: after any number n of CUSUM steps the dev_plus and dev_minus windows
\* have the same length, min(n, size of the deviation windows): every step
\* appends exactly one entry to each window and, once they are full, evicts
\* exactly the oldest entry from each.
C32_DeviationWindowsFillThenSlide ==
    /\ Len(CT_plus_win) = Len(CT_min_win)
    /\ Len(CT_plus_win) = IF n_calls < DevSize THEN n_calls ELSE DevSize
    /\ (last_call.op = "CUSUM" /\ last_call.raised = "none") =>
          /\ CT_plus_win = PushedInto(last_call.pre[1], last_call.locals.dev_plus)
          /\ CT_min_win = PushedInto(last_call.pre[2], last_call.locals.dev_minus)

\* C32 witness: a step on full deviation windows has evicted their oldest
\* entries, which differed from the ones kept.
C32_Witness ==
    /\ last_call.op = "CUSUM"
    /\ n_calls > DevSize
    /\ Len(last_call.pre[1]) = DevSize /\ Len(CT_plus_win) = DevSize
    /\ last_call.pre[1][1] # last_call.pre[1][2]
    /\ CT_plus_win[1] = last_call.pre[1][2]


\* C33: every entry ever stored in the dev_plus or dev_minus window is >= 0,
\* and the two entries pushed by the same CUSUM step (which sit at the same
\* position of the two windows) are never both nonzero.
C33_DeviationsNonNegativeAndExclusive ==
    /\ \A i \in 1..Len(CT_plus_win) : CT_plus_win[i].n >= 0
    /\ \A i \in 1..Len(CT_min_win) : CT_min_win[i].n >= 0
    /\ \A i \in 1..Len(CT_plus_win) :
          i <= Len(CT_min_win) => (CT_plus_win[i].n = 0 \/ CT_min_win[i].n = 0)
    /\ (last_call.op = "CUSUM" /\ last_call.raised = "none") =>
          /\ last_call.locals.dev_plus.n >= 0 /\ last_call.locals.dev_minus.n >= 0
          /\ last_call.locals.dev_plus.n = 0 \/ last_call.locals.dev_minus.n = 0

\* C33 witness: the deviation windows hold a positive deviation of one step
\* and a negative deviation of the next.
C33_Witness ==
    /\ last_call.op = "CUSUM"
    /\ Len(CT_plus_win) = 2
    /\ CT_plus_win[1].n > 0 /\ CT_min_win[1].n = 0
    /\ CT_plus_win[2].n = 0 /\ CT_min_win[2].n > 0


\* C34: immediately after range_check(window, UL, LL, True) returns on a full
\* window, every entry's value lies within [LL, UL], however many entries
\* were out of range before the call.
C34_CheckAllLeavesEveryValueInRange ==
    (last_call.op = "range_check" /\ last_call.arg[3]) =>
        \A i \in 1..Len(window) :
            ~OutOfRange(window[i].value, last_call.arg[1], last_call.arg[2])


---------------------------------------------------------------------------
(* Further claims about the constant-value fault, checked under SpecConst *)

\* C35: once a constant-value fault has been reported, with timestamps that
\* never decrease, the check on the next window reports a fault again as
\* long as the newest value still equals LastChanged.value (no latch, one
\* alert per stuck reading); when the newest value differs, no fault is
\* reported and LastChanged is set to the newest reading.
C35_FaultRepeatsUntilValueChanges ==
    (last_call.op = "is_const_err" /\ last_call.before) =>
        LET newest == last_call.pre[Len(last_call.pre)]
        IN  IF newest.value = last_call.arg[1]
            THEN /\ last_call.raised = "none"
                 /\ last_call.ret = TRUE
                 /\ last_call.message # NoneVal
                 /\ last_changed = last_call.arg
            ELSE /\ last_call.ret = FALSE
                 /\ last_call.message = NoneVal
                 /\ last_changed = <<newest.value, newest.time_stamp>>

\* C35 witness: a fault reported on one window and again on the next, whose
\* newest reading arrived later with the same value.
C35_Witness ==
    /\ last_call.op = "is_const_err"
    /\ last_call.before
    /\ last_call.ret = TRUE
    /\ Len(last_call.pre) = 2
    /\ last_call.pre[1].value = last_call.pre[2].value
    /\ last_call.pre[1].time_stamp # last_call.pre[2].time_stamp

\* C37: a constant-value alert uses the 'Stuck at Zero' message exactly when
\* the repeated value is exactly zero and the 'Constant Value Error' message
\* for every nonzero value, however small.
C37_StuckAtZeroIffValueIsZero ==
    (last_call.op = "is_const_err" /\ last_call.ret = TRUE) =>
        LET newest == last_call.pre[Len(last_call.pre)]
        IN  /\ last_call.message.text \in {"Stuck at Zero", "Constant Value Error"}
            /\ (last_call.message.text = "Stuck at Zero") <=> (newest.value = Num(0))


---------------------------------------------------------------------------
(* Termination of the bulk driver, checked under Spec *)

\* C36: run_csv terminates on every finite batch and returns normally: once
\* the replay is over it has returned its cleaned data, not raised, and in
\* particular has never taken a reading from an exhausted input.
C36_RunCsvReturnsNormally ==
    (mode = "csv" /\ Ended) => (pc = "returned" /\ error = "none")

===========================================================================
